---- MODULE Spec2Model ----
(***************************************************************************)
(* Klockan: an analog clock drawn on a canvas, with a radial countdown     *)
(* timer that is started by clicking a marker of the dial.                 *)
(*                                                                         *)
(* The repository holds three revisions of the main script:                *)
(*   "main"     src/scripts/main.js     timer started at load, no clicks   *)
(*   "part_000" src/unnamed/part_000    timer idle at load, no clicks      *)
(*   "part_001" src/unnamed/part_001    click-to-start timer, debounce     *)
(* The variable rev fixes the revision a behaviour runs; it never changes. *)
(*                                                                         *)
(* Times are milliseconds.  Lengths of the logical 1000 x 1000 space are   *)
(* held on a grid of Grid units per logical unit, so that the marker       *)
(* length 80 / 3 is a whole number.  The wedge angle is held as an exact   *)
(* fraction of a full turn, <<n, d>> in lowest terms (angle = n/d * 2*pi). *)
(***************************************************************************)
EXTENDS Integers, Sequences, FiniteSets, TLC

\* ------------------------------------------------------------------ bounds

\* Click events delivered to the canvas in one behaviour.
MaxClicks == 2

\* Click events in one behaviour of the dial survey (SpecHit).
MaxDialClicks == 1

\* Coarse steps of the host clock in one behaviour.
MaxCoarse == 2

\* Host clock steps.  While a debounce timeout is pending the clock moves in
\* steps from SmallDeltas; otherwise it moves by one of BigDeltas, and the frame
\* callback that ends such an interval runs with it.
SmallDeltas == {200}
BigDeltas == {240000, 3600000}

\* Largest integer handed to the Vector constructor and methods.
MaxComponent == 5

\* ------------------------------------------------------- program constants

Revisions == {"main", "part_000", "part_001"}

\* Grid units per logical unit.
Grid == 3 * 10

baseCanvasSize == 1000
clockPadding == 20
debounceMs == 200

\* clockRadius = baseCanvasSize.y / 2 * 0.9 (part_001); 420 in the older revisions.
clockRadius(r) == IF r = "part_001" THEN ((baseCanvasSize \div 2) * 9) \div 10 ELSE 420

\* clockCenter = baseCanvasSize.divide(2), on the grid.
clockCenter == [x |-> (baseCanvasSize \div 2) * Grid, y |-> (baseCanvasSize \div 2) * Grid]

\* majorMarkerStyles.length = 80, minorMarkerStyles.length = 80 / 3, on the grid.
majorMarkerLength == 80 * Grid
minorMarkerLength == (80 * Grid) \div 3

\* majorMarkerStyles.lineWidth = 24 and minorMarkerStyles.lineWidth = 12, on the grid.
majorMarkerLineWidth == 24 * Grid
minorMarkerLineWidth == 12 * Grid

\* The largest limit a marker sets (i = 45), and the limit of the older revisions.
MaxLimit == 60 * 60 * 1000

\* Initial timer fields of each revision.
initTimerStarted(r) == r = "main"
initTimerLimit(r) == IF r = "part_001" THEN 0 ELSE 60 * 60 * 1000

\* --------------------------------------------------------------- numbers

RECURSIVE GCD(_, _)
GCD(a, b) == IF b = 0 THEN a ELSE GCD(b, a % b)

NaN == "NaN"

\* (elapsed / limit) in turns, as the floating-point division gives it for
\* elapsed >= 0: an exact ratio, or NaN / Infinity when limit = 0.
Ratio(elapsed, limit) ==
    IF limit = 0 THEN NaN
    ELSE LET g == GCD(elapsed, limit) IN <<elapsed \div g, limit \div g>>

Zero == <<0, 1>>
FullTurn == <<1, 1>>

\* a <= b for two wedge sizes that are numbers.
WedgeLeq(a, b) == a[1] * b[2] <= b[1] * a[2]

\* round(k * c / 10000) for integers, also for negative c.
Scaled(k, c) == (k * c + 5000) \div 10000

\* 10000 * cos(6 degrees * k), k = 0..15.
CosTable == <<10000, 9945, 9781, 9511, 9135, 8660, 8090, 7431,
              6691, 5878, 5000, 4067, 3090, 2079, 1045, 0>>

\* 10000 * Math.cos(Math.PI * 2 / 60 * i) and the same for Math.sin.
Cos(i) ==
    LET m == i % 60 IN
    IF m <= 15 THEN CosTable[m + 1]
    ELSE IF m <= 30 THEN -CosTable[30 - m + 1]
    ELSE IF m <= 45 THEN -CosTable[m - 30 + 1]
    ELSE CosTable[60 - m + 1]

Sin(i) == Cos(i - 15)

\* ------------------------------------------------------------ host inputs

\* window.innerWidth / innerHeight / devicePixelRatio, and the canvas's
\* bounding client rect (left, top) in the layout of that window.
Viewports ==
    { [w |-> 1000, h |-> 1000, dpr |-> 1, left |-> 0, top |-> 0],
      [w |-> 800, h |-> 400, dpr |-> 2, left |-> 200, top |-> 0] }

\* Pointer positions (clientX, clientY) of click events.
ClickPoints == { <<544, 86>>, <<695, 162>>, <<500, 500>> }

NoTimer == 0

\* Pointer positions of the dial survey, for the window in which a client
\* pixel is a logical unit: twelveTop, twelveEdge and twelveCorner lie on the
\* stroke of the 12 o'clock marker, between lies in the hit zones of that
\* marker and of its clockwise neighbour.
twelveTop == <<500, 72>>
twelveEdge == <<511, 100>>
twelveCorner == <<511, 71>>
between == <<532, 92>>

\* Integers handed to the Vector constructor and methods.
Components == (0 - 1)..MaxComponent

\* ------------------------------------------------------------------ state

VARIABLES
    rev,              \* the revision of the main script that is running
    pc,               \* "script": the script has not run yet; "loaded": it has run
                      \* to its end, no frame yet; "looping": loop has run
    now,              \* host clock (the timestamp a frame callback receives)
    viewport,         \* host window: the element of Viewports in effect
    fullscreen,       \* host: TRUE iff the container is the fullscreen element
    timeouts,         \* host timer table: pending setTimeout callbacks; with each,
                      \* the event e it closes over and (history) aimed, what the
                      \* hit test selects for e when the event occurs
    rafPending,       \* host: number of outstanding requestAnimationFrame callbacks
    canvas,           \* canvas.width/height and canvas.style.width/height
    scale,            \* scale, in thousandths
    ctx,              \* the 2D context: its transform and its stack of saved states
    timerStarted,
    timerElapsed,
    timerLimit,
    timerWedgeSize,
    previousTime,
    clickDebounceId,
    nClicks,          \* click events delivered so far (also the last timer id)
    nCoarse,          \* coarse clock steps taken so far
    sinceClick,       \* history: ms since the last click event, capped at debounceMs
    quick,            \* history: the last click came < debounceMs after the one before
    handledLast,      \* history: handleClick has run for the last click
    handledPrev,      \* history: handleClick has run for the click before the last
    dblOn,            \* history: dblclick came while the last click's timeout was pending
    clickSinceFrame,  \* history: handleClick has run since the last frame
    armedDelta,       \* history: sum of the frame deltas since the timer was last
                      \* armed (since load if never), capped at MaxLimit
    operands,         \* Vector exercise: the arguments of the constructor calls and
                      \* of the method call still to be made
    heap,             \* Vector exercise: the Vector objects, by identity (index)
    call              \* Vector exercise: the last method call and what it returned

host == <<now, viewport, fullscreen, timeouts, rafPending>>
view == <<canvas, scale, ctx>>
timer == <<timerStarted, timerElapsed, timerLimit, timerWedgeSize>>
history == <<sinceClick, quick, handledLast, handledPrev, dblOn, clickSinceFrame, armedDelta>>
vectors == <<operands, heap, call>>
vars == <<rev, pc, host, view, timer, previousTime, clickDebounceId, nClicks, nCoarse, history,
          vectors>>

\* ------------------------------------------------------------ handleResize

Min(a, b) == IF a < b THEN a ELSE b

\* window.devicePixelRatio || 1
devicePixelRatio(v) == IF v.dpr = 0 THEN 1 ELSE v.dpr

\* The 2D context: scale of its transform in thousandths, its rotation in
\* quarter turns, and the stack that save() pushes to.  A new context, and the
\* context after canvas.width or canvas.height is assigned, is ctxDefault.
ctxDefault == [ scale |-> [x |-> 1000, y |-> 1000], turns |-> 0, saved |-> <<>> ]

\* ctx.scale(s.x, s.y): multiplies the current transform.
ctxScale(c, s) ==
    [ c EXCEPT !.scale = [ x |-> (c.scale.x * s.x) \div 1000,
                           y |-> (c.scale.y * s.y) \div 1000 ] ]

\* ctx.save(), ctx.rotate(q quarter turns), ctx.restore().
ctxSave(c) == [ c EXCEPT !.saved = Append(@, [scale |-> c.scale, turns |-> c.turns]) ]
ctxRotate(c, q) == [ c EXCEPT !.turns = (c.turns + q) % 4 ]
ctxRestore(c) ==
    IF c.saved = <<>> THEN c
    ELSE LET top == c.saved[Len(c.saved)]
         IN  [ scale |-> top.scale, turns |-> top.turns,
               saved |-> SubSeq(c.saved, 1, Len(c.saved) - 1) ]

\* Mutant: the scale is taken relative to the scale in effect.
handleResizeRelative(r, v) ==
    LET targetSide == Min(v.w, v.h)
        ratio == IF r = "part_001" THEN devicePixelRatio(v) ELSE 1
        side == (targetSide * ratio * 1000) \div (IF scale.x = 0 THEN 1000 ELSE scale.x)
    IN  [ canvas |-> [ width |-> targetSide * ratio,
                       height |-> targetSide * ratio,
                       styleWidth |-> targetSide,
                       styleHeight |-> targetSide ],
          scale |-> [ x |-> side, y |-> side ],
          ctx |-> ctxScale(ctxDefault, [ x |-> side, y |-> side ]) ]

\* The canvas, scale and context that handleResize sets for window v.  The
\* assignment to canvas.width resets the context before ctx.scale is called.
handleResize(r, v) ==
    LET targetSide == Min(v.w, v.h)
        ratio == IF r = "part_001" THEN devicePixelRatio(v) ELSE 1
        side == targetSide * ratio
    IN  [ canvas |-> [ width |-> targetSide * ratio,
                       height |-> targetSide * ratio,
                       styleWidth |-> targetSide,
                       styleHeight |-> targetSide ],
          scale |-> [ x |-> side, y |-> side ],
          ctx |-> ctxScale(ctxDefault, [ x |-> side, y |-> side ]) ]

\* ------------------------------------------------------------------ Vector

\* A JavaScript number that Vector arithmetic on integers can produce: the
\* exact fraction n / d in lowest terms with d > 0; Infinity and -Infinity
\* are 1 / 0 and -1 / 0, NaN is 0 / 0.  (0 and -0 are not told apart: they
\* are equal under ===.)
Num(k) == [ n |-> k, d |-> 1 ]
Infinity == [ n |-> 1, d |-> 0 ]
MinusInfinity == [ n |-> 0 - 1, d |-> 0 ]
NotANumber == [ n |-> 0, d |-> 0 ]

Abs(k) == IF k < 0 THEN 0 - k ELSE k

\* n / d for d # 0, in lowest terms with a positive denominator.
Fraction(n, d) ==
    LET g == GCD(Abs(n), Abs(d))
        sign == IF d < 0 THEN 0 - 1 ELSE 1
    IN  [ n |-> (sign * n) \div g, d |-> (sign * d) \div g ]

\* The arithmetic operators of operate's switch, on finite numbers.
jsArith(operation, p, q) ==
    CASE operation = "+" -> Fraction(p.n * q.d + q.n * p.d, p.d * q.d)
      [] operation = "-" -> Fraction(p.n * q.d - q.n * p.d, p.d * q.d)
      [] operation = "*" -> Fraction(p.n * q.n, p.d * q.d)
      [] operation = "/" -> IF q.n # 0 THEN Fraction(p.n * q.d, p.d * q.n)
                            ELSE IF p.n > 0 THEN Infinity
                            ELSE IF p.n < 0 THEN MinusInfinity
                            ELSE NotANumber

\* Argument values: a number, a reference to a Vector of the heap, or
\* undefined (the argument was not passed).
number(k) == [ kind |-> "number", val |-> k ]
reference(i) == [ kind |-> "Vector", val |-> i ]
undefined == [ kind |-> "undefined", val |-> 0 ]

\* The normalisation that opens both the constructor and operate:
\*   if (x instanceof Vector) { y = x.y; x = x.x; }
\*   if (typeof y !== 'number') { y = x; }
\* The result is the pair of numbers (x, y) the body goes on with.
spread(h, x, y) ==
    LET x1 == IF x.kind = "Vector" THEN h[x.val].x ELSE Num(x.val)
        y1 == IF x.kind = "Vector" THEN h[x.val].y
              ELSE IF y.kind = "number" THEN Num(y.val)
              ELSE x1
    IN  [ x |-> x1, y |-> y1 ]

\* new Vector(x, y): the heap with the new object, and the reference to it.
constructor(h, x, y) ==
    [ heap |-> Append(h, spread(h, x, y)), ref |-> Len(h) + 1 ]

\* Mutant: operate stores the result in its receiver and returns the receiver.
operateInPlace(h, this, x, y, operation) ==
    LET a == spread(h, x, y)
    IN  [ heap |-> [ h EXCEPT ![this] = [ x |-> jsArith(operation, h[this].x, a.x),
                                          y |-> jsArith(operation, h[this].y, a.y) ] ],
          ref |-> this ]

\* Mutant: both components are combined with the argument's x.
operateFirstComponent(h, this, x, y, operation) ==
    LET a == spread(h, x, y)
    IN  [ heap |-> Append(h, [ x |-> jsArith(operation, h[this].x, a.x),
                               y |-> jsArith(operation, h[this].y, a.x) ]),
          ref |-> Len(h) + 1 ]

\* this.operate(x, y, operation): return new Vector(this.x op x, this.y op y).
\* The two arguments of that constructor call are numbers, so the
\* constructor stores them as they are.
operate(h, this, x, y, operation) ==
    LET a == spread(h, x, y)
    IN  [ heap |-> Append(h, [ x |-> jsArith(operation, h[this].x, a.x),
                               y |-> jsArith(operation, h[this].y, a.y) ]),
          ref |-> Len(h) + 1 ]

\* add, subtract, multiply and divide, by the operation each hands to operate.
methods == [ add |-> "+", subtract |-> "-", multiply |-> "*", divide |-> "/" ]

\* No operands drawn, no call made.
NoOperands == [ v |-> <<>>, a |-> <<>> ]

\* The calls of the exercise: v = new Vector(x, y) or new Vector(x) for the
\* receiver; the argument a is a number passed as it is ("scalar"), the
\* receiver itself ("self"), or a second object ("new") built from numbers
\* or copied from the receiver by new Vector(v).
OperandSets ==
    LET numbers == { number(k) : k \in Components }
        receivers == { <<x, y>> : x \in numbers, y \in numbers \cup {undefined} }
        arguments ==
            { [kind |-> "scalar", x |-> x, y |-> undefined] : x \in numbers }
            \cup { [kind |-> "self", x |-> reference(1), y |-> undefined] }
            \cup { [kind |-> "new", x |-> x, y |-> y] :
                      x \in numbers, y \in numbers \cup {undefined} }
            \cup { [kind |-> "new", x |-> reference(1), y |-> undefined] }
    IN  { [ v |-> v, a |-> a ] : v \in receivers, a \in arguments }
NoCall == [ method |-> "none", this |-> 0, arg |-> undefined, returned |-> undefined ]

\* ------------------------------------------------------------- handleClick

\* client.subtract(offset).divide(scale), on the grid.
getClickPosition(e, v, sc) ==
    [ x |-> ((e.clientX - v.left) * baseCanvasSize * Grid) \div sc.x,
      y |-> ((e.clientY - v.top) * baseCanvasSize * Grid) \div sc.y ]

\* i % 5 === 0 ? majorMarkerStyles : minorMarkerStyles
markerLength(i) == IF i % 5 = 0 THEN majorMarkerLength ELSE minorMarkerLength

\* clockCenter.add(new Vector(x, y).multiply(outerRadius - markerStyles.length / 2))
markerZone(i) ==
    LET outerRadius == (clockRadius("part_001") - clockPadding) * Grid
        reach == outerRadius - markerLength(i) \div 2
    IN  [ x |-> clockCenter.x + Scaled(reach, Cos(i)),
          y |-> clockCenter.y + Scaled(reach, Sin(i)) ]

\* markerZone for every index of the scan, computed once.
markerZones == [ i \in -14..45 |-> markerZone(i) ]

\* Mutant: the sum of the two differences (the taxicab norm), squared.
distanceFromTaxicabSq(a, b) ==
    (Abs(a.x - b.x) + Abs(a.y - b.y)) * (Abs(a.x - b.x) + Abs(a.y - b.y))

\* Square of a.distanceFrom(b): the Euclidean norm of the difference.
distanceFromSq(a, b) == (a.x - b.x) * (a.x - b.x) + (a.y - b.y) * (a.y - b.y)

\* target.distanceFrom(markerZone) < markerStyles.length / 2
isHit(target, i) ==
    distanceFromSq(target, markerZones[i]) < (markerLength(i) \div 2) * (markerLength(i) \div 2)

\* drawMarker for index i of drawMarkers: a line from the radius inwards by
\* the length of the style, stroked with the style's line width.
drawMarker(i) ==
    LET radius == (clockRadius("part_001") - clockPadding) * Grid
        major == i % 5 = 0
    IN  [ i |-> i,
          style |-> IF major THEN "major" ELSE "minor",
          lineWidth |-> IF major THEN majorMarkerLineWidth ELSE minorMarkerLineWidth,
          start |-> [ x |-> clockCenter.x + Scaled(radius, Cos(i)),
                      y |-> clockCenter.y + Scaled(radius, Sin(i)) ],
          end |-> [ x |-> clockCenter.x + Scaled(radius - markerLength(i), Cos(i)),
                    y |-> clockCenter.y + Scaled(radius - markerLength(i), Sin(i)) ] ]

\* drawMarkers: the markers drawn in one frame, in drawing order.  The loop
\* runs while i <= 60 in main.js and while i < 60 in the other revisions.
drawMarkers(r) ==
    [ k \in 1..(IF r = "main" THEN 61 ELSE 60) |-> drawMarker(k - 1) ]

\* The scan of handleClick from index i on: the first index hit, plus 15;
\* null (0) when no index up to 45 is hit.
null == 0

\* Mutant: timerHit = i + 14.
RECURSIVE scanPlus14(_, _)
scanPlus14(target, i) ==
    IF i >= 46 THEN null
    ELSE IF isHit(target, i) THEN i + 14
    ELSE scanPlus14(target, i + 1)

RECURSIVE scan(_, _)
scan(target, i) ==
    IF i >= 46 THEN null
    ELSE IF isHit(target, i) THEN i + 15
    ELSE scan(target, i + 1)

\* The logical positions that the pointer positions of the model can map to,
\* and the scan's result for each, computed once.
hitTargets ==
    { getClickPosition([clientX |-> p[1], clientY |-> p[2]], v, handleResize(r, w).scale) :
        p \in ClickPoints \cup { twelveTop, twelveEdge, twelveCorner, between }
                \cup { <<markerZones[i].x \div Grid, markerZones[i].y \div Grid>> :
                         i \in (0 - 14)..45 },
        v \in Viewports, r \in {"part_001"}, w \in Viewports }
hits == [ target \in hitTargets |-> scan(target, 0 - 14) ]

\* timerHit after the loop of handleClick.
timerHit(target) == IF target \in hitTargets THEN hits[target] ELSE scan(target, 0 - 14)

\* History: what the hit test selects for a pointer position p in window v
\* at scale sc.
aimedAt(p, v, sc) == timerHit(getClickPosition([clientX |-> p[1], clientY |-> p[2]], v, sc))

\* Mutant: the reset of a completed timer is tested before the hit.
handleClickResetFirst(target, started, elapsed, limit) ==
    LET hit == timerHit(target) IN
    IF started /\ elapsed >= limit
      THEN [ started |-> FALSE, elapsed |-> 0, limit |-> 0 ]
    ELSE IF hit # null
      THEN [ started |-> TRUE, elapsed |-> 0, limit |-> hit * 60 * 1000 ]
    ELSE [ started |-> started, elapsed |-> elapsed, limit |-> limit ]

\* Mutant: no reset branch.
handleClickNoReset(target, started, elapsed, limit) ==
    LET hit == timerHit(target) IN
    IF hit # null
      THEN [ started |-> TRUE, elapsed |-> 0, limit |-> hit * 60 * 1000 ]
    ELSE [ started |-> started, elapsed |-> elapsed, limit |-> limit ]

\* Mutant: a miss resets the timer whenever it is started.
handleClickResetRunning(target, started, elapsed, limit) ==
    LET hit == timerHit(target) IN
    IF hit # null
      THEN [ started |-> TRUE, elapsed |-> 0, limit |-> hit * 60 * 1000 ]
    ELSE IF started
      THEN [ started |-> FALSE, elapsed |-> 0, limit |-> 0 ]
    ELSE [ started |-> started, elapsed |-> elapsed, limit |-> limit ]

\* Mutant: the reset forgets timerStarted = false.
handleClickKeepStarted(target, started, elapsed, limit) ==
    LET hit == timerHit(target) IN
    IF hit # null
      THEN [ started |-> TRUE, elapsed |-> 0, limit |-> hit * 60 * 1000 ]
    ELSE IF started /\ elapsed >= limit
      THEN [ started |-> started, elapsed |-> 0, limit |-> 0 ]
    ELSE [ started |-> started, elapsed |-> elapsed, limit |-> limit ]

\* Mutant: the minutes are counted counter-clockwise from 12 o'clock.
handleClickCounterClockwise(target, started, elapsed, limit) ==
    LET hit == timerHit(target) IN
    IF hit # null
      THEN [ started |-> TRUE, elapsed |-> 0,
             limit |-> (IF hit = 60 THEN 60 ELSE 60 - hit) * 60 * 1000 ]
    ELSE IF started /\ elapsed >= limit
      THEN [ started |-> FALSE, elapsed |-> 0, limit |-> 0 ]
    ELSE [ started |-> started, elapsed |-> elapsed, limit |-> limit ]

\* The timer fields after handleClick for a click at logical position target.
handleClick(target, started, elapsed, limit) ==
    LET hit == timerHit(target) IN
    IF hit # null
      THEN [ started |-> TRUE, elapsed |-> 0, limit |-> hit * 60 * 1000 ]
    ELSE IF started /\ elapsed >= limit
      THEN [ started |-> FALSE, elapsed |-> 0, limit |-> 0 ]
    ELSE [ started |-> started, elapsed |-> elapsed, limit |-> limit ]

\* --------------------------------------------------------------- drawTimer

\* Mutant: the sum is not clamped to the limit.
drawTimerNoClamp(started, elapsed, limit, wedge, delta) ==
    IF ~started THEN [ elapsed |-> elapsed, wedge |-> wedge ]
    ELSE [ elapsed |-> elapsed + delta, wedge |-> Ratio(elapsed + delta, limit) ]

\* part_001: returns when the timer is not started; else adds delta, clamps.
drawTimer(started, elapsed, limit, wedge, delta) ==
    IF ~started THEN [ elapsed |-> elapsed, wedge |-> wedge ]
    ELSE LET sum == elapsed + delta
             clamped == IF sum > limit THEN limit ELSE sum
         IN  [ elapsed |-> clamped, wedge |-> Ratio(clamped, limit) ]

\* main.js and part_000: returns when not started or already at the limit;
\* else adds delta without clamping.
drawTimerMain(started, elapsed, limit, wedge, delta) ==
    IF ~started \/ elapsed >= limit THEN [ elapsed |-> elapsed, wedge |-> wedge ]
    ELSE [ elapsed |-> elapsed + delta, wedge |-> Ratio(elapsed + delta, limit) ]

\* The paint calls drawTimer issues on the context: none when it returns at
\* its guard, else the wedge path and its fill (timerStyles has a fillStyle
\* and no strokeStyle).
drawTimerCalls(r, started, elapsed, limit) ==
    IF r = "part_001"
      THEN IF ~started THEN <<>>
           ELSE <<"beginPath", "moveTo", "arc", "closePath", "fill">>
      ELSE IF ~started \/ elapsed >= limit THEN <<>>
           ELSE <<"beginPath", "moveTo", "arc", "closePath", "fill">>

\* TRUE iff drawTimer, called in this state, reaches its final division.
drawTimerDivides ==
    IF rev = "part_001" THEN timerStarted
    ELSE timerStarted /\ timerElapsed < timerLimit

\* --------------------------------------------------------- toggleFullscreen

\* exitFullscreen when an element is fullscreen, requestFullscreen otherwise.
toggleFullscreen(isFullscreen) == ~isFullscreen

\* ------------------------------------------------------------------- loop

\* Mutant: drawHands does not restore the context.
drawHandsNoRestore(c) == ctxRotate(ctxSave(c), -1)

\* The context after drawHands: save, rotate by -90 degrees about the centre,
\* the draws of the three hands, restore.
drawHands(c) == ctxRestore(ctxRotate(ctxSave(c), -1))

\* Mutant: the request is dropped.
requestNothing(pending) == pending

\* requestAnimationFrame(loop): one more frame callback is outstanding.
requestAnimationFrame(pending) == pending + 1

\* The steps of one loop, in the order of its statements; they are the same
\* in every revision and for every timer state.
loopSteps(r) ==
    <<"clearRect", "drawClockFace", "drawTimer", "drawMarkers", "drawHands",
      "requestAnimationFrame">>

\* The context after one loop: clearRect, drawClockFace, drawTimer and
\* drawMarkers call no transform function, drawHands does.
loopContext(c) == drawHands(c)

\* The extent of the bitmap, in device pixels from its origin, that
\* ctx.clearRect(0, 0, canvas.width, canvas.height) clears under context c.
clearRect(cv, c) ==
    [ width |-> Min(cv.width, (cv.width * c.scale.x) \div 1000),
      height |-> Min(cv.height, (cv.height * c.scale.y) \div 1000) ]

\* ------------------------------------------------------------------ Init

\* The canvas element before the script sizes it (the default bitmap size).
defaultCanvas == [ width |-> 300, height |-> 150, styleWidth |-> 300, styleHeight |-> 150 ]

\* scale before handleResize: new Vector(1) in part_001, null (held as the
\* zero vector) in the older revisions.
initScale(r) == IF r = "part_001" THEN [x |-> 1000, y |-> 1000] ELSE [x |-> 0, y |-> 0]

\* The state when the script starts to run, in a window of Viewports.
InitScript ==
    /\ rev \in Revisions
    /\ pc = "script"
    /\ now = 0
    /\ viewport \in Viewports
    /\ fullscreen = FALSE
    /\ timeouts = {}
    /\ rafPending = 0
    /\ canvas = defaultCanvas
    /\ scale = initScale(rev)
    /\ ctx = ctxDefault
    /\ timerStarted = initTimerStarted(rev)
    /\ timerElapsed = 0
    /\ timerLimit = initTimerLimit(rev)
    /\ timerWedgeSize = Zero
    /\ previousTime = 0
    /\ clickDebounceId = NoTimer
    /\ nClicks = 0
    /\ nCoarse = 0
    /\ sinceClick = debounceMs
    /\ quick = FALSE
    /\ handledLast = FALSE
    /\ handledPrev = FALSE
    /\ dblOn = FALSE
    /\ clickSinceFrame = FALSE
    /\ armedDelta = 0

\* The script as the page loads it: no Vector call of the exercise is made.
Init ==
    /\ InitScript
    /\ operands = NoOperands
    /\ heap = <<>>
    /\ call = NoCall

\* The Vector exercise: the operands are drawn, nothing is constructed yet.
InitVector ==
    /\ InitScript
    /\ rev = "part_001"
    /\ viewport.dpr = 1
    /\ operands \in OperandSets
    /\ heap = <<>>
    /\ call = NoCall

\* ----------------------------------------------------------------- actions

\* clearTimeout(id): the timer table without the timer of that id.
clearTimeout(table, id) == { t \in table : t.id # id }

\* Mutant: the script requests the first frame without calling handleResize.
MainNoResize ==
    /\ pc = "script"
    /\ pc' = "loaded"
    /\ rafPending' = requestAnimationFrame(rafPending)
    /\ UNCHANGED <<vectors, rev, now, viewport, fullscreen, timeouts, view, timer, previousTime,
                   clickDebounceId, nClicks, nCoarse, history>>

\* The script runs to its end in one task: it binds the listeners, calls
\* handleResize() and requests the first frame.
Main ==
    /\ pc = "script"
    /\ pc' = "loaded"
    /\ canvas' = handleResize(rev, viewport).canvas
    /\ scale' = handleResize(rev, viewport).scale
    /\ ctx' = handleResize(rev, viewport).ctx
    /\ rafPending' = requestAnimationFrame(rafPending)
    /\ UNCHANGED <<vectors, rev, now, viewport, fullscreen, timeouts, timer, previousTime,
                   clickDebounceId, nClicks, nCoarse, history>>

\* The host clock advances while a debounce timeout is pending; a timeout
\* fires when it is due, so the clock does not pass it.
Tick ==
    \E d \in SmallDeltas :
        /\ timeouts # {}
        /\ \A t \in timeouts : t.left >= d
        /\ now' = now + d
        /\ timeouts' = { [t EXCEPT !.left = t.left - d] : t \in timeouts }
        /\ sinceClick' = Min(sinceClick + d, debounceMs)
        /\ UNCHANGED <<vectors, rev, pc, viewport, fullscreen, rafPending, view, timer, previousTime,
                       clickDebounceId, nClicks, nCoarse, quick, handledLast, handledPrev,
                       dblOn, clickSinceFrame, armedDelta>>

\* window 'resize' and the matchMedia 'change' listener: both call handleResize.
Resize ==
    \E v \in Viewports :
        /\ pc # "script"
        /\ viewport' = v
        /\ canvas' = handleResize(rev, v).canvas
        /\ scale' = handleResize(rev, v).scale
        /\ ctx' = handleResize(rev, v).ctx
        /\ UNCHANGED <<vectors, rev, pc, now, fullscreen, timeouts, rafPending, timer, previousTime,
                       clickDebounceId, nClicks, nCoarse, history>>

\* Mutant: the click listener does not clear the pending timeout.
ClickNoClear ==
    \E p \in ClickPoints :
        /\ pc # "script"
        /\ rev = "part_001"
        /\ nClicks < MaxClicks
        /\ p[1] >= viewport.left /\ p[1] < viewport.left + canvas.styleWidth
        /\ p[2] >= viewport.top /\ p[2] < viewport.top + canvas.styleHeight
        /\ timeouts' = timeouts
                         \cup { [ id |-> nClicks + 1, left |-> debounceMs,
                                  e |-> [clientX |-> p[1], clientY |-> p[2]],
                                  aimed |-> aimedAt(p, viewport, scale) ] }
        /\ clickDebounceId' = nClicks + 1
        /\ nClicks' = nClicks + 1
        /\ quick' = (nClicks >= 1 /\ sinceClick < debounceMs)
        /\ sinceClick' = 0
        /\ handledPrev' = handledLast
        /\ handledLast' = FALSE
        /\ dblOn' = FALSE
        /\ UNCHANGED <<vectors, rev, pc, now, viewport, fullscreen, rafPending, view, timer,
                       previousTime, nCoarse, clickSinceFrame, armedDelta>>

\* canvas 'click' listener (part_001): clearTimeout, then setTimeout(handleClick, 200).
Click ==
    \E p \in ClickPoints :
        /\ pc # "script"
        /\ rev = "part_001"
        /\ nClicks < MaxClicks
        /\ p[1] >= viewport.left /\ p[1] < viewport.left + canvas.styleWidth
        /\ p[2] >= viewport.top /\ p[2] < viewport.top + canvas.styleHeight
        /\ timeouts' = clearTimeout(timeouts, clickDebounceId)
                         \cup { [ id |-> nClicks + 1, left |-> debounceMs,
                                  e |-> [clientX |-> p[1], clientY |-> p[2]],
                                  aimed |-> aimedAt(p, viewport, scale) ] }
        /\ clickDebounceId' = nClicks + 1
        /\ nClicks' = nClicks + 1
        /\ quick' = (nClicks >= 1 /\ sinceClick < debounceMs)
        /\ sinceClick' = 0
        /\ handledPrev' = handledLast
        /\ handledLast' = FALSE
        /\ dblOn' = FALSE
        /\ UNCHANGED <<vectors, rev, pc, now, viewport, fullscreen, rafPending, view, timer,
                       previousTime, nCoarse, clickSinceFrame, armedDelta>>

\* Mutant: the dblclick listener only toggles fullscreen.
DblClickNoClear ==
    /\ pc # "script"
    /\ timeouts' = timeouts
    /\ fullscreen' = toggleFullscreen(fullscreen)
    /\ dblOn' = (dblOn \/ \E t \in timeouts : t.id = nClicks)
    /\ UNCHANGED <<vectors, rev, pc, now, viewport, rafPending, view, timer, previousTime,
                   clickDebounceId, nClicks, nCoarse, sinceClick, quick, handledLast,
                   handledPrev, clickSinceFrame, armedDelta>>

\* container 'dblclick' listener: clearTimeout(clickDebounceId) in part_001,
\* then toggleFullscreen; the older revisions only toggle.
DblClick ==
    /\ pc # "script"
    /\ timeouts' = IF rev = "part_001" THEN clearTimeout(timeouts, clickDebounceId)
                   ELSE timeouts
    /\ fullscreen' = toggleFullscreen(fullscreen)
    /\ dblOn' = (dblOn \/ \E t \in timeouts : t.id = nClicks)
    /\ UNCHANGED <<vectors, rev, pc, now, viewport, rafPending, view, timer, previousTime,
                   clickDebounceId, nClicks, nCoarse, sinceClick, quick, handledLast,
                   handledPrev, clickSinceFrame, armedDelta>>

\* The debounce timeout fires: handleClick(e) runs.
Timeout ==
    \E t \in timeouts :
        /\ t.left = 0
        /\ LET target == getClickPosition(t.e, viewport, scale)
               after == handleClick(target, timerStarted, timerElapsed, timerLimit)
           IN  /\ timerStarted' = after.started
               /\ timerElapsed' = after.elapsed
               /\ timerLimit' = after.limit
               /\ armedDelta' = IF timerHit(target) # null THEN 0 ELSE armedDelta
        /\ timeouts' = timeouts \ {t}
        /\ handledLast' = (handledLast \/ t.id = nClicks)
        /\ handledPrev' = (handledPrev \/ t.id = nClicks - 1)
        /\ clickSinceFrame' = TRUE
        /\ UNCHANGED <<vectors, rev, pc, now, viewport, fullscreen, rafPending, view, timerWedgeSize,
                       previousTime, clickDebounceId, nClicks, nCoarse, sinceClick,
                       quick, dblOn>>

\* The frame callback: loop(time).  It runs at the current clock value, or at
\* the end of a coarse interval d when no timeout is pending.
Frame ==
    \E d \in {0} \cup BigDeltas :
        /\ rafPending > 0
        /\ d > 0 => timeouts = {} /\ nCoarse < MaxCoarse
        /\ nCoarse' = IF d > 0 THEN nCoarse + 1 ELSE nCoarse
        /\ LET time == now + d
               delta == time - previousTime
               after == IF rev = "part_001"
                          THEN drawTimer(timerStarted, timerElapsed, timerLimit,
                                         timerWedgeSize, delta)
                          ELSE drawTimerMain(timerStarted, timerElapsed, timerLimit,
                                             timerWedgeSize, delta)
           IN  /\ now' = time
               /\ previousTime' = time
               /\ timerElapsed' = after.elapsed
               /\ timerWedgeSize' = after.wedge
               /\ armedDelta' = Min(armedDelta + delta, MaxLimit)
        /\ ctx' = loopContext(ctx)
        /\ rafPending' = requestAnimationFrame(rafPending - 1)
        /\ pc' = "looping"
        /\ sinceClick' = Min(sinceClick + d, debounceMs)
        /\ clickSinceFrame' = FALSE
        /\ UNCHANGED <<vectors, rev, viewport, fullscreen, timeouts, canvas, scale, timerStarted, timerLimit,
                       clickDebounceId, nClicks, quick, handledLast, handledPrev, dblOn>>

\* canvas 'click' listener (part_001) for a click of the dial survey: at the
\* centre of the zone of one of the 60 markers, or at one of the positions
\* around the 12 o'clock marker.
ClickDial ==
    \E p \in { <<markerZones[i].x \div Grid, markerZones[i].y \div Grid>> : i \in -14..45 }
                \cup { twelveTop, twelveEdge, twelveCorner, between } :
        /\ pc # "script"
        /\ rev = "part_001"
        /\ nClicks < MaxDialClicks
        /\ p[1] >= viewport.left /\ p[1] < viewport.left + canvas.styleWidth
        /\ p[2] >= viewport.top /\ p[2] < viewport.top + canvas.styleHeight
        /\ timeouts' = clearTimeout(timeouts, clickDebounceId)
                         \cup { [ id |-> nClicks + 1, left |-> debounceMs,
                                  e |-> [clientX |-> p[1], clientY |-> p[2]],
                                  aimed |-> aimedAt(p, viewport, scale) ] }
        /\ clickDebounceId' = nClicks + 1
        /\ nClicks' = nClicks + 1
        /\ quick' = (nClicks >= 1 /\ sinceClick < debounceMs)
        /\ sinceClick' = 0
        /\ handledPrev' = handledLast
        /\ handledLast' = FALSE
        /\ dblOn' = FALSE
        /\ UNCHANGED <<vectors, rev, pc, now, viewport, fullscreen, rafPending, view, timer,
                       previousTime, nCoarse, clickSinceFrame, armedDelta>>

\* The argument handed to the method: the number, the receiver, or the
\* second object.
argumentOf(o) == IF o.a.kind = "new" THEN reference(1 + 1) ELSE o.a.x

\* The objects of the exercise are constructed.
constructed == Len(heap) = (IF operands.a.kind = "new" THEN 1 + 1 ELSE 1)

\* new Vector(...) for the receiver, then for the argument when it is an
\* object of its own.
NewVector ==
    /\ operands # NoOperands
    /\ call = NoCall
    /\ ~ constructed
    /\ heap' = IF Len(heap) = 0
                 THEN constructor(heap, operands.v[1], operands.v[2]).heap
                 ELSE constructor(heap, operands.a.x, operands.a.y).heap
    /\ UNCHANGED <<operands, call, rev, pc, host, view, timer, previousTime, clickDebounceId,
                   nClicks, nCoarse, history>>

\* v.add(a), v.subtract(a), v.multiply(a) or v.divide(a).
Operate ==
    \E m \in DOMAIN methods :
        /\ operands # NoOperands
        /\ call = NoCall
        /\ constructed
        /\ LET out == operate(heap, 1, argumentOf(operands), undefined, methods[m])
           IN  /\ heap' = out.heap
               /\ call' = [ method |-> m, this |-> 1, arg |-> argumentOf(operands),
                            returned |-> reference(out.ref) ]
        /\ UNCHANGED <<operands, rev, pc, host, view, timer, previousTime, clickDebounceId,
                       nClicks, nCoarse, history>>

Next == Main \/ Tick \/ Resize \/ Click \/ DblClick \/ Timeout \/ Frame

Spec == Init /\ [][Next]_vars

\* The host runs the script, lets time pass while a timeout is pending, and
\* calls an outstanding frame callback; a timeout that is due does not stay
\* due for ever (the host fires it).
SpecFair ==
    /\ Spec
    /\ WF_vars(Main) /\ WF_vars(Tick) /\ WF_vars(Frame)
    /\ []<>(~ \E t \in timeouts : t.left = 0)

\* The dial survey: one click anywhere on the dial, debounced and handled.
NextHit == Main \/ Tick \/ ClickDial \/ Timeout

SpecHit == Init /\ [][NextHit]_vars

\* The Vector exercise: construct the operands, make one method call.
NextVector == NewVector \/ Operate

SpecVector == InitVector /\ [][NextVector]_vars

\* ------------------------------------------------------------------ claims

IsPart001 == rev = "part_001"

\* The logical position handleClick computes for pending timeout t.
targetOf(t) == getClickPosition(t.e, viewport, scale)

\* The dial minutes (1..60, 60 at 12 o'clock) of the markers whose zone holds
\* the position: minute m is drawn at index m - 15 of the scan.
minutesAt(target) == { m \in 1..60 : isHit(target, m - 15) }

\* The timer is Completed.
Completed == timerStarted /\ timerElapsed >= timerLimit

\* C1: whenever the timer is started, 0 <= timerElapsed <= timerLimit.
C1_ElapsedWithinLimit ==
    timerStarted => (0 <= timerElapsed /\ timerElapsed <= timerLimit)

\* C2: when handleClick runs for a click that hits a marker, in any prior
\* timer state, the timer is started with timerElapsed = 0 and timerLimit =
\* (minutes of the hit marker) * 60 * 1000.
C2_HitArms ==
    [][Timeout =>
         \A t \in timeouts :
            (t \notin timeouts' /\ minutesAt(targetOf(t)) # {}) =>
               /\ timerStarted'
               /\ timerElapsed' = 0
               /\ \E m \in minutesAt(targetOf(t)) : timerLimit' = m * 60 * 1000]_vars

\* A click on a marker was handled while the timer was Completed: the timer
\* is re-armed (the wedge of the completed run is still stored).
C2_Witness ==
    /\ IsPart001 /\ clickSinceFrame /\ handledLast /\ handledPrev
    /\ timerStarted /\ timerElapsed = 0 /\ timerLimit = 60000
    /\ timerWedgeSize = FullTurn

\* C3: from Idle, a handled click on the 5 minute marker gives Running with
\* timerLimit = 300000 and timerElapsed = 0; once the frame deltas since then
\* total 300000 the timer is Completed with timerElapsed = timerLimit and a
\* wedge of a full turn, and further frames change neither.
C3_FiveMinutes ==
    /\ [](IsPart001 /\ timerStarted /\ timerLimit = 300000 /\ armedDelta >= 300000
            => timerElapsed = timerLimit /\ timerWedgeSize = FullTurn)
    /\ [][/\ (Timeout /\ ~timerStarted /\
                \E t \in timeouts : t \notin timeouts' /\ minutesAt(targetOf(t)) = {5})
             => (timerStarted' /\ timerLimit' = 300000 /\ timerElapsed' = 0)
          /\ (Frame /\ Completed /\ timerLimit = 300000 /\ timerWedgeSize = FullTurn)
             => (timerElapsed' = timerElapsed /\ timerWedgeSize' = timerWedgeSize)]_vars

\* The 5 minute timer has completed and a later frame with a positive delta
\* has run (two coarse steps have passed, one more than completes it).
C3_Witness ==
    /\ IsPart001 /\ timerStarted /\ timerLimit = 300000 /\ handledLast /\ ~handledPrev
    /\ timerElapsed = 300000 /\ timerWedgeSize = FullTurn
    /\ nCoarse = 2 /\ previousTime >= 3600000 + 240000

\* C4: when the timer is Completed and handleClick runs for a click that hits
\* no marker, the timer returns to Idle: not started, limit 0, elapsed 0.
C4_MissResetsCompleted ==
    [][(Timeout /\ Completed /\
          \E t \in timeouts : t \notin timeouts' /\ minutesAt(targetOf(t)) = {})
       => (~timerStarted' /\ timerLimit' = 0 /\ timerElapsed' = 0)]_vars

\* A completed timer has been reset by a click (its full wedge is still stored).
C4_Witness ==
    /\ IsPart001 /\ ~timerStarted /\ timerLimit = 0 /\ timerElapsed = 0
    /\ handledLast /\ handledPrev /\ timerWedgeSize = FullTurn

\* C5: when handleClick runs for a click that hits no marker while the timer
\* is Idle or Running, the four timer fields are unchanged.
C5_MissIsNoOp ==
    [][(Timeout /\ ~Completed /\
          \E t \in timeouts : t \notin timeouts' /\ minutesAt(targetOf(t)) = {})
       => UNCHANGED timer]_vars

\* handleClick has run since the last frame and the timer is still Running
\* part-way: the click hit no marker and changed nothing.
C5_Witness ==
    /\ IsPart001 /\ clickSinceFrame /\ handledLast
    /\ timerStarted /\ timerElapsed > 0 /\ timerElapsed < timerLimit

\* C6: drawTimer never divides by a timerLimit of 0: whenever it reaches its
\* division the timer is started and timerLimit > 0, and the stored wedge is
\* never NaN or infinite.
C6_NoDivisionByZero ==
    /\ drawTimerDivides => (timerStarted /\ timerLimit > 0)
    /\ timerWedgeSize # NaN

\* drawTimer has divided after a click armed the timer.
C6_Witness ==
    IsPart001 /\ timerStarted /\ timerElapsed > 0 /\ timerWedgeSize # Zero

\* C7: whenever timerLimit > 0, timerWedgeSize = (timerElapsed / timerLimit)
\* turns, also right after handleClick arms or re-arms the timer.
C7_WedgeMatches ==
    timerLimit > 0 => timerWedgeSize = Ratio(timerElapsed, timerLimit)

\* C8: the stored wedge lies in [0, one turn], and it does not decrease from
\* one frame to the next when handleClick has not run in between.
C8_WedgeRangeMonotone ==
    /\ [](timerWedgeSize # NaN /\ WedgeLeq(Zero, timerWedgeSize)
            /\ WedgeLeq(timerWedgeSize, FullTurn))
    /\ [][(timerWedgeSize' # timerWedgeSize /\ ~clickSinceFrame)
             => WedgeLeq(timerWedgeSize, timerWedgeSize')]_vars

\* C9: if a click is followed by a second click within the debounce window,
\* handleClick runs for neither of them.
C9_NeitherHandled ==
    quick => (~handledLast /\ ~handledPrev)

\* C9 as amended: handleClick does not run for the first of the two clicks,
\* and runs for the second only if no dblclick came while its timeout was
\* pending.
C9_FirstSuppressed ==
    quick => (~handledPrev /\ (dblOn => ~handledLast))

\* The second of two quick clicks has been handled.
C9_Witness ==
    quick /\ handledLast /\ ~handledPrev /\ ~dblOn

\* C10 (parts b and c): at most one debounced handleClick is pending, dblclick
\* leaves the timer fields alone, and handleClick runs only for the last
\* click, debounceMs after it, with no dblclick in between.
C10_Debounce ==
    /\ [](Cardinality(timeouts) <= 1)
    /\ [][/\ DblClick => UNCHANGED timer
          /\ Timeout => \A t \in timeouts :
                           t \notin timeouts' =>
                              (t.id = nClicks /\ sinceClick >= debounceMs /\ ~dblOn)]_vars

\* C10: a double-click (click, click, dblclick while the second click's
\* timeout is pending) never causes handleClick to run; with parts b and c.
C10_DoubleClickNeverHandles ==
    /\ []((nClicks >= 2 /\ dblOn) => (~handledLast /\ ~handledPrev))
    /\ C10_Debounce

\* C10 as amended: a double-click whose second click comes within debounceMs
\* of the first never causes handleClick to run; with parts b and c.
C10_QuickDoubleClickNeverHandles ==
    /\ []((quick /\ dblOn) => (~handledLast /\ ~handledPrev))
    /\ C10_Debounce

\* A quick double-click has been delivered and has toggled fullscreen.
C10_Witness ==
    quick /\ dblOn /\ fullscreen /\ timeouts = {}

\* ------------------------------------------------- C11, C12: the dial

\* The index of drawMarkers whose marker is rendered at 12 o'clock: straight
\* above the centre of the dial (the y axis of the canvas points down).
twelve == CHOOSE j \in 0..59 : /\ drawMarker(j).start.x = clockCenter.x
                              /\ drawMarker(j).start.y < clockCenter.y

\* The position lies on the stroke of the marker rendered at 12 o'clock.
onTwelve(target) ==
    LET m == drawMarker(twelve) IN
    /\ 2 * (target.x - m.start.x) <= m.lineWidth
    /\ 2 * (m.start.x - target.x) <= m.lineWidth
    /\ m.start.y <= target.y /\ target.y <= m.end.y

\* The index of the handleClick scan that tests the marker drawn at index j
\* of drawMarkers: the one with the same zone centre (the middle of the line).
scanIndexOf(j) ==
    CHOOSE i \in -14..45 :
        /\ 2 * markerZones[i].x = drawMarker(j).start.x + drawMarker(j).end.x
        /\ 2 * markerZones[i].y = drawMarker(j).start.y + drawMarker(j).end.y

\* The markers next to 12 o'clock: one position clockwise is drawn to the
\* right of it on the screen, one position counter-clockwise to the left.
clockwiseOfTwelve == (twelve + 1) % 60
counterClockwiseOfTwelve == (twelve + 59) % 60

C12_CounterClockwiseIsOne ==
    [][Timeout =>
         \A t \in timeouts : t \notin timeouts' =>
            (isHit(targetOf(t), scanIndexOf(counterClockwiseOfTwelve))
               => timerLimit' = 60 * 1000)]_vars

\* C12 as amended: a handled click on the marker one position clockwise from
\* 12 o'clock sets timerLimit = 60000 (1 minute), the smallest limit a hit
\* sets; on the marker one position counter-clockwise it sets 59 minutes.
C12_ClockwiseIsOne ==
    [][Timeout =>
         \A t \in timeouts : t \notin timeouts' =>
            /\ isHit(targetOf(t), scanIndexOf(clockwiseOfTwelve))
                  => timerLimit' = 60 * 1000
            /\ isHit(targetOf(t), scanIndexOf(counterClockwiseOfTwelve))
                  => timerLimit' = 59 * 60 * 1000
            /\ timerHit(targetOf(t)) # null => timerLimit' >= 60 * 1000]_vars

\* A click on the marker to the right of 12 o'clock has set 1 minute.
C12_Witness ==
    /\ handledLast /\ timerStarted /\ timerLimit = 60 * 1000 /\ timeouts = {}
    /\ drawMarker(clockwiseOfTwelve).start.x > clockCenter.x
    /\ drawMarker(clockwiseOfTwelve).start.y < clockCenter.y
    /\ drawMarker(counterClockwiseOfTwelve).start.x < clockCenter.x

\* ------------------------------------------------------ C13: initially Idle

\* C13: the timer is not started when the script starts, and a frame that
\* runs while the timer is not started, or before any click, issues no draw
\* call in drawTimer and leaves timerElapsed and timerWedgeSize alone.
C13_IdleUntilArmed ==
    /\ [](pc = "script" => ~timerStarted)
    /\ [][(Frame /\ (~timerStarted \/ nClicks = 0))
            => /\ drawTimerCalls(rev, timerStarted, timerElapsed, timerLimit) = <<>>
               /\ UNCHANGED <<timerElapsed, timerWedgeSize>>]_vars

\* ------------------------------------------------------- C14: frame order

\* C14: every loop clears the whole canvas, then runs drawClockFace,
\* drawTimer, drawMarkers and drawHands in this order; the rotation of
\* drawHands is in effect neither when loop starts (so for no call of the
\* steps before drawHands) nor when it ends, and nothing is left saved.
C14_FrameOrder ==
    [][Frame =>
         /\ SubSeq(loopSteps(rev), 1, 5)
               = <<"clearRect", "drawClockFace", "drawTimer", "drawMarkers", "drawHands">>
         /\ clearRect(canvas, ctx) = [width |-> canvas.width, height |-> canvas.height]
         /\ ctx.turns = 0 /\ ctx.saved = <<>>
         /\ ctx'.turns = 0 /\ ctx'.saved = <<>>]_vars

\* -------------------------------------------------- C15: the loop goes on

\* C15: every loop leaves exactly one frame callback outstanding, whatever
\* the timer state, so that one is outstanding at all times after the script
\* has run and a frame can always run; with a fair host, frames go on: the
\* clock steps that only a frame takes are all taken.
C15_LoopGoesOn ==
    /\ [](pc # "script" => (rafPending = 1 /\ ENABLED Frame))
    /\ [][Frame => rafPending' = 1]_vars
    /\ <>(nCoarse = MaxCoarse)

\* Frames have run with the timer Idle, Running and Completed up to the last
\* clock step; one callback is outstanding.
C15_Witness ==
    /\ pc = "looping" /\ nCoarse = MaxCoarse /\ rafPending = 1
    /\ timerStarted /\ timerElapsed >= timerLimit /\ handledLast

\* ------------------------------------------- C16: resize before first frame

\* C16: when a frame runs, the first one included, handleResize has run: the
\* canvas, the scale and the transform of the context are the ones it
\* computes from the window (in a 1000 x 1000 window at pixel ratio 1 the
\* computed scale has the value of the placeholder), and the canvas is not the
\* one the script starts with.
C16_ResizeBeforeFirstFrame ==
    [][Frame =>
         /\ pc # "script"
         /\ canvas = handleResize(rev, viewport).canvas
         /\ scale = handleResize(rev, viewport).scale
         /\ ctx.scale = scale
         /\ canvas # defaultCanvas]_vars

\* The first frame has run in the 800 x 400 window, where the computed scale
\* differs from the placeholder new Vector(1).
C16_Witness ==
    /\ IsPart001 /\ pc = "looping" /\ nCoarse = 1 /\ nClicks = 0
    /\ previousTime = now /\ scale = [x |-> 800, y |-> 800] /\ ctx.scale = scale

\* ------------------------------------------------------- C17, C18: scale

\* physicalCanvasSize / logicalSize in thousandths, for a window v: the
\* shorter side times the pixel ratio, over the logical size of 1000.
physicalOverLogical(v) ==
    (Min(v.w, v.h) * v.dpr * 1000) \div baseCanvasSize

\* C17: once handleResize has run (at startup, and after every resize), in
\* every state a frame can see, both components of scale are
\* physicalCanvasSize / logicalSize with physicalCanvasSize = min(width,
\* height) * devicePixelRatio; the bitmap has that size and the context
\* applies that scale.
C17_ScaleMatchesViewport ==
    pc # "script" =>
        /\ scale.x = physicalOverLogical(viewport)
        /\ scale.y = physicalOverLogical(viewport)
        /\ canvas.width = Min(viewport.w, viewport.h) * viewport.dpr
        /\ canvas.height = Min(viewport.w, viewport.h) * viewport.dpr
        /\ ctx.scale = scale

\* The scale of revision r in window v when nothing but v decides it: the
\* shorter side (times the pixel ratio, where the revision reads it) over the
\* logical size, in thousandths.
scaleOfWindow(r, v) ==
    LET side == Min(v.w, v.h) * (IF r = "part_001" THEN v.dpr ELSE 1)
    IN  [ x |-> (side * 1000) \div baseCanvasSize, y |-> (side * 1000) \div baseCanvasSize ]

\* C18: handleResize with the window unchanged leaves scale (and the canvas
\* and the transform) as they are, and after any number of resizes the scale
\* is the one that belongs to the window in effect alone: going back to a
\* window restores the scale that held there.
C18_ResizeIdempotent ==
    /\ [](pc # "script" => (scale = scaleOfWindow(rev, viewport) /\ ctx.scale = scale))
    /\ [][(Resize /\ viewport' = viewport)
            => (scale' = scale /\ canvas' = canvas /\ ctx' = ctx)]_vars

\* The window was resized after a click: the click at (695, 162) lies outside
\* the canvas of the 800 x 400 window now in effect, and the scale is 0.8.
C18_Witness ==
    /\ IsPart001 /\ viewport.w = 800 /\ scale = [x |-> 800, y |-> 800]
    /\ \E t \in timeouts : t.e.clientX = 695

\* ------------------------------------------------------- C19: tick marks

\* C19: every frame draws exactly 60 tick marks, one for each index 0..59 in
\* order, each in the major style iff its index is a multiple of 5, and no
\* two of them in the same place.
C19_SixtyTickMarks ==
    [][Frame =>
         LET marks == drawMarkers(rev)
         IN  /\ Len(marks) = 60
             /\ \A k \in 1..Len(marks) :
                    /\ marks[k].i = k - 1
                    /\ (marks[k].style = "major") <=> ((k - 1) % 5 = 0)
             /\ \A j, k \in 1..Len(marks) :
                    (marks[j].start = marks[k].start) => (j = k)]_vars

\* ------------------------------------------------------- C20: first delta

\* C20: the first invocation of loop (the frame taken while previousTime is
\* still its initial 0) leaves timerElapsed as it was, whatever clicks and
\* debounce expiries came before it and whatever the timer's initial state.
C20_FirstDeltaIgnored ==
    [][(Frame /\ pc = "loaded") => timerElapsed' = timerElapsed]_vars

\* ------------------------------------------------------- C21: hit zones

\* C21: the logical position of every click that handleClick is about to
\* hit-test lies in the hit zone of at most one marker, so the scan's result
\* does not depend on its order.
C21_ZonesDisjoint ==
    \A t \in timeouts : Cardinality(minutesAt(targetOf(t))) <= 1

\* ------------------------------------------------------- C22: distanceFrom

C23_OperateIsPure ==
    [][Operate =>
         /\ call'.returned.kind = "Vector"
         /\ call'.returned.val \notin DOMAIN heap
         /\ call'.returned.val \in DOMAIN heap'
         /\ \A i \in DOMAIN heap : heap'[i] = heap[i]
         /\ call'.arg = argumentOf(operands)
         /\ operands' = operands]_vars

\* v = new Vector(1, 2) has been added to itself: the result is a third
\* value (2, 4) in a new object and v is still (1, 2).
C23_Witness ==
    /\ call.method = "add" /\ call.arg = reference(1) /\ call.returned = reference(1 + 1)
    /\ heap = << [x |-> Num(1), y |-> Num(2)], [x |-> Num(1 + 1), y |-> Num(4)] >>

\* The pair of integers that new Vector(x, y) is to hold, by the spec: both
\* components are x when y is not passed.
pairOf(x, y) == [ x |-> x.val, y |-> IF y.kind = "number" THEN y.val ELSE x.val ]

\* The receiver and the argument of the exercise as pairs of integers: a
\* scalar argument s counts as (s, s), a copy of the receiver as the receiver.
receiverPair == pairOf(operands.v[1], operands.v[2])
argumentPair ==
    IF operands.a.x.kind = "Vector" THEN receiverPair
    ELSE pairOf(operands.a.x, operands.a.y)

\* r is the number that integer p and integer q give under the method; a
\* quotient is told by cross-multiplication, and nothing is asked of a
\* division by zero.
isResult(method, r, p, q) ==
    CASE method = "add" -> r = Num(p + q)
      [] method = "subtract" -> r = Num(p - q)
      [] method = "multiply" -> r = Num(p * q)
      [] method = "divide" ->
           (q # 0) => (r.d > 0 /\ r.n * q = p * r.d /\ GCD(Abs(r.n), r.d) = 1)

\* C24: new Vector(s) is (s, s), new Vector(x, y) is (x, y), and the Vector
\* a method returns is the component-wise result of the receiver and the
\* argument, where a scalar argument s acts as Vector(s, s); so
\* Vector(5).add(Vector(1, 2)) is (6, 7) and Vector(2, 2).divide(2) is (1, 1).
C24_ComponentWise ==
    /\ (Len(heap) >= 1) =>
          (heap[1] = [x |-> Num(receiverPair.x), y |-> Num(receiverPair.y)])
    /\ (operands.a.kind = "new" /\ Len(heap) >= 1 + 1) =>
          (heap[1 + 1] = [x |-> Num(argumentPair.x), y |-> Num(argumentPair.y)])
    /\ (call # NoCall) =>
          LET r == heap[call.returned.val]
          IN  /\ isResult(call.method, r.x, receiverPair.x, argumentPair.x)
              /\ isResult(call.method, r.y, receiverPair.y, argumentPair.y)
    /\ (call # NoCall /\ receiverPair = [x |-> 5, y |-> 5] /\ call.method = "add"
          /\ argumentPair = [x |-> 1, y |-> 1 + 1]) =>
          (heap[call.returned.val] = [x |-> Num(6), y |-> Num(7)])
    /\ (call # NoCall /\ receiverPair = [x |-> 1 + 1, y |-> 1 + 1] /\ call.method = "divide"
          /\ argumentPair = [x |-> 1 + 1, y |-> 1 + 1]) =>
          (heap[call.returned.val] = [x |-> Num(1), y |-> Num(1)])

\* Vector(5).add(Vector(1, 2)) has returned (6, 7): the receiver was built
\* from the single scalar 5.
C24_Witness ==
    /\ operands.v = << number(5), undefined >>
    /\ call.method = "add" /\ call.arg = reference(1 + 1)
    /\ heap = << [x |-> Num(5), y |-> Num(5)], [x |-> Num(1), y |-> Num(1 + 1)],
                 [x |-> Num(6), y |-> Num(7)] >>

\* ------------------------------------------------------- C25: scan and limit

C26_HitAsAimed ==
    \A t \in timeouts : (t.left = 0) => (timerHit(targetOf(t)) = t.aimed)

====
